---- MODULE Spec2Model ----
(***************************************************************************)
(* A model of the UK-academic style assistant                              *)
(* (style_assistant_uk_academic.py) and of the humaniser                   *)
(* (uk_academic_humaniser.py).                                             *)
(*                                                                         *)
(* A text is a sequence of characters; a character is a one-code-point     *)
(* string ("a", ".", " ").  The one non-ASCII code point the model needs,  *)
(* U+017F LATIN SMALL LETTER LONG S, is written LongS.  The regular        *)
(* expressions of the source are modelled by scanners that do what         *)
(* Python's re module does on these texts.                                 *)
(***************************************************************************)
EXTENDS Integers, Sequences, FiniteSets, TLC

VARIABLES
    entry,      \* the function the caller invoked
    pc,         \* position in that function
    text,       \* the input text
    opts,       \* main: the parsed arguments [clean, nowrap]
    wrap,       \* clean_text, humanise_uk_academic: the wrap argument
    sentences,  \* split_sentences' result
    idx,        \* loop index of the running for-loop
    issues,     \* analyse_text: the issue records, in emission order
    starts,     \* analyse_text: the opening keys collected so far
    expanded,   \* clean_text: the text after the contraction substitution
    cleaned,    \* clean_text: the text after the informal substitution
    new,        \* humanise_uk_academic: the rewritten sentences
    draws,      \* humanise_uk_academic: the values random.random() returned
    joined,     \* the sentences re-joined with single spaces
    result,     \* the value the function returned
    printed     \* what main printed, in order

vars == <<entry, pc, text, opts, wrap, sentences, idx, issues, starts, expanded,
          cleaned, new, draws, joined, result, printed>>

(***************************************************************************)
(* Bounds of the model.                                                    *)
(***************************************************************************)
\* the values random.random() may return, in hundredths: 0.34 and 0.35
RandomValues == {34, 35}
\* the connectors random.choice may pick (indices into ACADEMIC_CONNECTORS)
ConnectorChoices == {1, 5}
\* the longest text handed to split_sentences
MaxSegLen == 5
\* the most pieces concatenated into one input text, per specification
MaxMainPieces == 3
MaxAnalysePieces == 4
MaxLengthPieces == 4
MaxCleanPieces == 3
MaxHumanisePieces == 3
\* a wrap argument narrower than the words, besides the default
NarrowWrap == 7

(***************************************************************************)
(* Characters.                                                             *)
(***************************************************************************)
LongS == "U+017F"

Lowers == <<"a","b","c","d","e","f","g","h","i","j","k","l","m",
            "n","o","p","q","r","s","t","u","v","w","x","y","z">>
Uppers == <<"A","B","C","D","E","F","G","H","I","J","K","L","M",
            "N","O","P","Q","R","S","T","U","V","W","X","Y","Z">>
Digits == {"0","1","2","3","4","5","6","7","8","9"}

LowerSet == {Lowers[i] : i \in DOMAIN Lowers}
UpperSet == {Uppers[i] : i \in DOMAIN Uppers}

\* str.lower() on one character: LongS has no lowercase mapping but itself.
LowerMap == [c \in UpperSet |-> Lowers[CHOOSE i \in DOMAIN Uppers : Uppers[i] = c]]
LowerChar(c) == IF c \in UpperSet THEN LowerMap[c] ELSE c

\* [A-Za-z]
IsAsciiLetter(c) == c \in LowerSet \/ c \in UpperSet
\* \w of a str pattern: letters (LongS is one), digits, underscore
IsWord(c) == IsAsciiLetter(c) \/ c \in Digits \/ c = "_" \/ c = LongS
\* \s, and what str.strip() strips
IsSpace(c) == c \in {" ", "\n", "\t"}
\* [.!?]
IsTerminator(c) == c \in {".", "!", "?"}

\* One pattern character against one text character.  Under re.IGNORECASE a
\* str pattern's "s" also matches U+017F.
CharEq(k, c, ignorecase) ==
    IF ignorecase
    THEN \/ LowerChar(k) = LowerChar(c)
         \/ (LowerChar(k) = "s" /\ c = LongS)
    ELSE k = c

(***************************************************************************)
(* Strings.                                                                *)
(***************************************************************************)
Slice(t, a, b) == IF a > b THEN << >> ELSE SubSeq(t, a, b)

\* the concatenation of ss[a..b], by halves
RECURSIVE FlattenRange(_, _, _)
FlattenRange(ss, a, b) ==
    IF a > b THEN << >>
    ELSE IF a = b THEN ss[a]
    ELSE LET m == (a + b) \div 2
         IN  FlattenRange(ss, a, m) \o FlattenRange(ss, m + 1, b)

Flatten(ss) == FlattenRange(ss, 1, Len(ss))

\* the positions of t that satisfy P, in increasing order
Positions(t, P(_)) == SelectSeq([i \in 1..Len(t) |-> i], P)

\* str.lower()
Lower(t) == [i \in DOMAIN t |-> LowerChar(t[i])]

\* str.strip()
Strip(t) ==
    LET solid == Positions(t, LAMBDA i : ~IsSpace(t[i]))
    IN  IF solid = << >> THEN << >> ELSE SubSeq(t, solid[1], solid[Len(solid)])

\* sep.join(ss)
JoinWith(ss, sep) ==
    Flatten([k \in 1..(2 * Len(ss) - 1) |-> IF k % 2 = 1 THEN ss[(k + 1) \div 2] ELSE sep])

\* s occurs in t at position p
OccursAt(s, t, p) ==
    /\ p + Len(s) - 1 <= Len(t)
    /\ \A i \in 1..Len(s) : t[p + i - 1] = s[i]
\* s in t
Contains(t, s) == \E p \in 1..Len(t) : OccursAt(s, t, p)

\* \b at the gap before position p of t (1 <= p <= Len(t) + 1)
Boundary(t, p) ==
    LET before == p > 1 /\ IsWord(t[p - 1])
        after  == p <= Len(t) /\ IsWord(t[p])
    IN  before # after

(***************************************************************************)
(* split_sentences (the two files hold the same function).                 *)
(***************************************************************************)
\* re.sub(r"([.!?])([A-Za-z])", r"\1 \2", text)
SpaceAfterTerminator(t) ==
    Flatten([i \in DOMAIN t |->
                IF IsTerminator(t[i]) /\ i < Len(t) /\ IsAsciiLetter(t[i + 1])
                THEN <<t[i], " ">>
                ELSE <<t[i]>>])

\* re.split(r"([.!?])", text): the runs between the terminators and the
\* terminators themselves, alternating; always an odd number of parts.
SplitParts(t) ==
    LET marks == Positions(t, LAMBDA i : IsTerminator(t[i]))
        n == Len(marks)
    IN  [k \in 1..(2 * n + 1) |->
            IF k % 2 = 0 THEN <<t[marks[k \div 2]]>>
            ELSE Slice(t,
                       IF k = 1 THEN 1 ELSE marks[(k - 1) \div 2] + 1,
                       IF k = 2 * n + 1 THEN Len(t) ELSE marks[(k + 1) \div 2] - 1)]

\* the for-loop over the (run, terminator) pairs
PairSentences(parts) ==
    LET stripped == [j \in 1..((Len(parts) - 1) \div 2) |->
                        Strip(parts[2 * j - 1] \o parts[2 * j])]
    IN  SelectSeq(stripped, LAMBDA s : s # << >>)

\* split_sentences without its last two lines: a text that does not end in
\* a terminator loses its trailing fragment
split_sentences_no_tail(t) ==
    PairSentences(SplitParts(SpaceAfterTerminator(t)))

\* split_sentences splitting on a pattern without the group: the terminators
\* are dropped and the sentences are the stripped runs between them
split_sentences_drop_marks(t) ==
    LET parts == SplitParts(SpaceAfterTerminator(t))
        runs == [j \in 1..((Len(parts) + 1) \div 2) |-> Strip(parts[2 * j - 1])]
    IN  SelectSeq(runs, LAMBDA s : s # << >>)

split_sentences(t) ==
    LET spaced == SpaceAfterTerminator(t)
        parts  == SplitParts(spaced)
        last   == Strip(parts[Len(parts)])
    IN  PairSentences(parts)
        \o (IF Len(parts) % 2 # 0 /\ last # << >> THEN <<last>> ELSE << >>)

(***************************************************************************)
(* The term tables of style_assistant_uk_academic.py, as sequences of      *)
(* <<key, value>> in the dict's order (the second "I'm" literal overwrites *)
(* the first and leaves one entry).                                        *)
(***************************************************************************)
CONTRACTION_MAP == <<
    <<<<"d","o","n","'","t">>,
      <<"d","o"," ","n","o","t">>>>,
    <<<<"d","o","e","s","n","'","t">>,
      <<"d","o","e","s"," ","n","o","t">>>>,
    <<<<"d","i","d","n","'","t">>,
      <<"d","i","d"," ","n","o","t">>>>,
    <<<<"c","a","n","'","t">>,
      <<"c","a","n","n","o","t">>>>,
    <<<<"c","a","n","n","o","t">>,
      <<"c","a","n","n","o","t">>>>,
    <<<<"w","o","n","'","t">>,
      <<"w","i","l","l"," ","n","o","t">>>>,
    <<<<"i","s","n","'","t">>,
      <<"i","s"," ","n","o","t">>>>,
    <<<<"a","r","e","n","'","t">>,
      <<"a","r","e"," ","n","o","t">>>>,
    <<<<"w","a","s","n","'","t">>,
      <<"w","a","s"," ","n","o","t">>>>,
    <<<<"w","e","r","e","n","'","t">>,
      <<"w","e","r","e"," ","n","o","t">>>>,
    <<<<"h","a","s","n","'","t">>,
      <<"h","a","s"," ","n","o","t">>>>,
    <<<<"h","a","v","e","n","'","t">>,
      <<"h","a","v","e"," ","n","o","t">>>>,
    <<<<"h","a","d","n","'","t">>,
      <<"h","a","d"," ","n","o","t">>>>,
    <<<<"w","o","u","l","d","n","'","t">>,
      <<"w","o","u","l","d"," ","n","o","t">>>>,
    <<<<"s","h","o","u","l","d","n","'","t">>,
      <<"s","h","o","u","l","d"," ","n","o","t">>>>,
    <<<<"c","o","u","l","d","n","'","t">>,
      <<"c","o","u","l","d"," ","n","o","t">>>>,
    <<<<"I","'","m">>,
      <<"I"," ","a","m">>>>,
    <<<<"y","o","u","'","r","e">>,
      <<"y","o","u"," ","a","r","e">>>>,
    <<<<"w","e","'","r","e">>,
      <<"w","e"," ","a","r","e">>>>,
    <<<<"t","h","e","y","'","r","e">>,
      <<"t","h","e","y"," ","a","r","e">>>>,
    <<<<"i","t","'","s">>,
      <<"i","t"," ","i","s">>>>,
    <<<<"t","h","a","t","'","s">>,
      <<"t","h","a","t"," ","i","s">>>>,
    <<<<"t","h","e","r","e","'","s">>,
      <<"t","h","e","r","e"," ","i","s">>>>,
    <<<<"I","'","v","e">>,
      <<"I"," ","h","a","v","e">>>>,
    <<<<"y","o","u","'","v","e">>,
      <<"y","o","u"," ","h","a","v","e">>>>,
    <<<<"w","e","'","v","e">>,
      <<"w","e"," ","h","a","v","e">>>>,
    <<<<"t","h","e","y","'","v","e">>,
      <<"t","h","e","y"," ","h","a","v","e">>>>,
    <<<<"I","'","l","l">>,
      <<"I"," ","w","i","l","l">>>>,
    <<<<"y","o","u","'","l","l">>,
      <<"y","o","u"," ","w","i","l","l">>>>,
    <<<<"w","e","'","l","l">>,
      <<"w","e"," ","w","i","l","l">>>>,
    <<<<"t","h","e","y","'","l","l">>,
      <<"t","h","e","y"," ","w","i","l","l">>>>
>>

INFORMAL_MAP == <<
    <<<<"r","e","a","l","l","y">>,
      <<"h","i","g","h","l","y"," ","/"," ","v","e","r","y"," ","(","c","o","n","s","i","d","e","r"," ","m","o","r","e"," ","p","r","e","c","i","s","e"," ","w","o","r","d","i","n","g",")">>>>,
    <<<<"v","e","r","y">>,
      <<"i","n","t","e","n","s","e","l","y"," ","/"," ","e","x","t","r","e","m","e","l","y"," ","(","o","r"," ","r","e","m","o","v","e"," ","i","f"," ","u","n","n","e","c","e","s","s","a","r","y",")">>>>,
    <<<<"a"," ","l","o","t">>,
      <<"a"," ","s","u","b","s","t","a","n","t","i","a","l"," ","a","m","o","u","n","t">>>>,
    <<<<"l","o","t","s"," ","o","f">>,
      <<"m","a","n","y"," ","/"," ","n","u","m","e","r","o","u","s">>>>,
    <<<<"s","t","u","f","f">>,
      <<"m","a","t","e","r","i","a","l"," ","/"," ","c","o","n","t","e","n","t"," ","/"," ","i","t","e","m","s"," ","(","b","e"," ","s","p","e","c","i","f","i","c",")">>>>,
    <<<<"t","h","i","n","g","s">>,
      <<"a","s","p","e","c","t","s"," ","/"," ","f","a","c","t","o","r","s"," ","/"," ","e","l","e","m","e","n","t","s"," ","(","b","e"," ","s","p","e","c","i","f","i","c",")">>>>,
    <<<<"k","i","d","s">>,
      <<"c","h","i","l","d","r","e","n">>>>,
    <<<<"b","i","g">>,
      <<"s","i","g","n","i","f","i","c","a","n","t"," ","/"," ","s","u","b","s","t","a","n","t","i","a","l">>>>,
    <<<<"h","u","g","e">>,
      <<"m","a","j","o","r"," ","/"," ","c","o","n","s","i","d","e","r","a","b","l","e">>>>,
    <<<<"b","a","s","i","c","a","l","l","y">>,
      <<"f","u","n","d","a","m","e","n","t","a","l","l","y"," ","/"," ","e","s","s","e","n","t","i","a","l","l","y"," ","(","o","r"," ","r","e","m","o","v","e",")">>>>,
    <<<<"p","r","e","t","t","y">>,
      <<"f","a","i","r","l","y"," ","/"," ","r","e","l","a","t","i","v","e","l","y"," ","(","o","r"," ","r","e","m","o","v","e",")">>>>,
    <<<<"k","i","n","d"," ","o","f">>,
      <<"s","o","m","e","w","h","a","t"," ","/"," ","t","o"," ","s","o","m","e"," ","e","x","t","e","n","t">>>>,
    <<<<"s","o","r","t"," ","o","f">>,
      <<"s","o","m","e","w","h","a","t"," ","/"," ","t","o"," ","s","o","m","e"," ","e","x","t","e","n","t">>>>,
    <<<<"g","o","n","n","a">>,
      <<"g","o","i","n","g"," ","t","o">>>>,
    <<<<"w","a","n","n","a">>,
      <<"w","a","n","t"," ","t","o">>>>
>>

\* the words of FIRST_PERSON_PATTERN
FIRST_PERSON_WORDS == <<<<"I">>, <<"w","e">>, <<"W","e">>, <<"o","u","r">>, <<"O","u","r">>, <<"u","s">>>>

Keys(map) == [i \in DOMAIN map |-> map[i][1]]

\* dict.get(k): the value, or None
None == <<"None">>
MapGet(map, k) ==
    IF \E i \in DOMAIN map : map[i][1] = k
    THEN map[CHOOSE i \in DOMAIN map : map[i][1] = k][2]
    ELSE None

(***************************************************************************)
(* The compiled patterns: \b(k1|k2|...)\b over a table's keys.  At a       *)
(* position the alternatives are tried in order and the first that is      *)
(* followed by a word boundary wins; finditer and sub scan left to right   *)
(* and resume after each match.                                            *)
(***************************************************************************)
KeyAt(k, t, p, ignorecase) ==
    /\ p + Len(k) - 1 <= Len(t)
    /\ \A i \in 1..Len(k) : CharEq(k[i], t[p + i - 1], ignorecase)
    /\ Boundary(t, p + Len(k))

\* the index of the alternative that matches at p, or 0
AltAt(keys, t, p, ignorecase) ==
    IF ~Boundary(t, p) THEN 0
    ELSE LET hits == {k \in DOMAIN keys : KeyAt(keys[k], t, p, ignorecase)}
         IN  IF hits = {} THEN 0
             ELSE CHOOSE k \in hits : \A j \in hits : k <= j

\* pattern.finditer(t): the matches as [from, to], left to right.  cands
\* holds the positions where some alternative matches; the scan takes the
\* first at or after p and resumes after that match.
RECURSIVE ScanFrom(_, _, _, _, _, _)
ScanFrom(keys, t, cands, j, p, ignorecase) ==
    IF j > Len(cands) THEN << >>
    ELSE IF cands[j] < p THEN ScanFrom(keys, t, cands, j + 1, p, ignorecase)
    ELSE LET k == AltAt(keys, t, cands[j], ignorecase)
             to == cands[j] + Len(keys[k]) - 1
         IN  <<[from |-> cands[j], to |-> to]>>
             \o ScanFrom(keys, t, cands, j + 1, to + 1, ignorecase)

FindIter(keys, t, ignorecase) ==
    ScanFrom(keys, t, Positions(t, LAMBDA p : AltAt(keys, t, p, ignorecase) # 0),
             1, 1, ignorecase)

\* m.group(0)
Group0(t, m) == SubSeq(t, m.from, m.to)

\* pattern.sub(repl, t), given the pattern's matches ms in t and reps[i] =
\* repl(ms[i]): the text between the matches and the replacements, in turn
SubAll(t, ms, reps) ==
    LET n == Len(ms)
    IN  Flatten([k \in 1..(2 * n + 1) |->
            IF k % 2 = 0 THEN reps[k \div 2]
            ELSE Slice(t,
                       IF k = 1 THEN 1 ELSE ms[(k - 1) \div 2].to + 1,
                       IF k = 2 * n + 1 THEN Len(t) ELSE ms[(k + 1) \div 2].from - 1)])

ContractionKeys == Keys(CONTRACTION_MAP)
InformalKeys == Keys(INFORMAL_MAP)

\* CONTRACTION_PATTERN is compiled without flags: it is case-sensitive
CONTRACTION_PATTERN(t) == FindIter(ContractionKeys, t, FALSE)
\* INFORMAL_PATTERN is compiled with re.IGNORECASE
INFORMAL_PATTERN(t) == FindIter(InformalKeys, t, TRUE)
FIRST_PERSON_PATTERN(t) == FindIter(FIRST_PERSON_WORDS, t, FALSE)

(***************************************************************************)
(* re.findall(r"\w+('\w+)?", s).  Each match is a run of word characters   *)
(* optionally continued by an apostrophe and a second run; findall on a    *)
(* pattern with one group returns the group's text for each match, "" when *)
(* the group took no part.                                                 *)
(***************************************************************************)
\* The runs of word characters of t are runStarts[j]..runEnds[j].  Run j is
\* linked to run j - 1 when exactly one apostrophe lies between them.  A
\* match takes a run and, if the next run is linked to it, that run too, so
\* in a chain of linked runs the odd ones open a match.
RunStarts(t) == Positions(t, LAMBDA i : IsWord(t[i]) /\ (i = 1 \/ ~IsWord(t[i - 1])))
RunEnds(t) == Positions(t, LAMBDA i : IsWord(t[i]) /\ (i = Len(t) \/ ~IsWord(t[i + 1])))

Linked(t, rs, re, j) ==
    j > 1 /\ rs[j] = re[j - 1] + 2 /\ t[re[j - 1] + 1] = "'"

RECURSIVE ChainPos(_, _, _, _)
ChainPos(t, rs, re, j) ==
    IF Linked(t, rs, re, j) THEN 1 + ChainPos(t, rs, re, j - 1) ELSE 1

\* the matches as [from, to, group], left to right
WordMatches(t) ==
    LET rs == RunStarts(t)
        re == RunEnds(t)
        opens == SelectSeq([j \in 1..Len(rs) |-> j],
                           LAMBDA j : ChainPos(t, rs, re, j) % 2 = 1)
    IN  [m \in 1..Len(opens) |->
            LET j == opens[m]
            IN  IF j < Len(rs) /\ Linked(t, rs, re, j + 1)
                THEN [from |-> rs[j], to |-> re[j + 1],
                      group |-> SubSeq(t, re[j] + 1, re[j + 1])]
                ELSE [from |-> rs[j], to |-> re[j], group |-> << >>]]

FindAllWords(s) == LET ms == WordMatches(s) IN [i \in DOMAIN ms |-> ms[i].group]

(***************************************************************************)
(* analyse_text.                                                           *)
(***************************************************************************)
LONG_LIMIT == 35
SHORT_LIMIT == 7
REPEAT_LIMIT == 2

\* INFORMAL_MAP.get's default in analyse_text
FALLBACK_SUGGESTION ==
    <<"C","o","n","s","i","d","e","r"," ","a"," ","m","o","r","e"," ","p","r","e","c","i","s","e"," ","a","l","t","e","r","n","a","t","i","v","e",".">>

\* An issue dict.  detail holds what the message interpolates besides the
\* sentence index; extract is the sentence.
Issue(type, i, detail, s) ==
    [type |-> type, sentence_index |-> i, detail |-> detail, extract |-> s]

\* the sentence length flags with >= for >
LengthIssues_inclusive(i, s, word_count) ==
    IF word_count >= LONG_LIMIT THEN <<Issue("long_sentence", i, word_count, s)>>
    ELSE IF word_count < SHORT_LIMIT THEN <<Issue("short_sentence", i, word_count, s)>>
    ELSE << >>

\* the sentence length flags
LengthIssues(i, s, word_count) ==
    IF word_count > LONG_LIMIT THEN <<Issue("long_sentence", i, word_count, s)>>
    ELSE IF word_count < SHORT_LIMIT THEN <<Issue("short_sentence", i, word_count, s)>>
    ELSE << >>

ContractionIssues(i, s) ==
    LET ms == CONTRACTION_PATTERN(s)
    IN  [k \in DOMAIN ms |-> Issue("contraction", i, Group0(s, ms[k]), s)]

InformalSuggestion(w) ==
    LET v == MapGet(INFORMAL_MAP, Lower(w))
    IN  IF v = None THEN FALLBACK_SUGGESTION ELSE v

InformalIssues(i, s) ==
    LET ms == INFORMAL_PATTERN(s)
    IN  [k \in DOMAIN ms |->
            LET w == Group0(s, ms[k])
            IN  Issue("informal", i, <<w, InformalSuggestion(w)>>, s)]

FirstPersonIssues(i, s) ==
    LET ms == FIRST_PERSON_PATTERN(s)
    IN  [k \in DOMAIN ms |-> Issue("first_person", i, Group0(s, ms[k]), s)]

\* the sentence start collected from words, the list findall returned
SentenceStart(words) ==
    IF Len(words) >= 2 THEN Lower(JoinWith(SubSeq(words, 1, 2), <<" ">>))
    ELSE IF words # << >> THEN Lower(words[1])
    ELSE << >>

\* collections.Counter(starts)[start]
Counter(ss, start) == Cardinality({i \in DOMAIN ss : ss[i] = start})

\* the loop over starts after the sentence loop
RepeatedStartIssues(ss, sents) ==
    LET all == [i \in DOMAIN ss |-> Issue("repeated_start", i, ss[i], sents[i])]
    IN  SelectSeq(all, LAMBDA x : x.detail # << >>
                                  /\ Counter(ss, x.detail) > REPEAT_LIMIT)

AnalyseStart ==
    /\ pc = "analyse_text"
    /\ sentences' = split_sentences(text)
    /\ issues' = << >>
    /\ starts' = << >>
    /\ idx' = 1
    /\ pc' = "analyse_loop"
    /\ UNCHANGED <<entry, text, opts, wrap, expanded, cleaned, new, draws,
                   joined, result, printed>>

\* one pass of the loop over the sentences with the first-person block
\* placed before the contraction block
AnalyseSentence_pronouns_first ==
    /\ pc = "analyse_loop"
    /\ idx <= Len(sentences)
    /\ LET s == sentences[idx]
           words == FindAllWords(s)
           word_count == Len(words)
       IN  /\ issues' = issues \o LengthIssues(idx, s, word_count)
                               \o FirstPersonIssues(idx, s)
                               \o ContractionIssues(idx, s)
                               \o InformalIssues(idx, s)
           /\ starts' = Append(starts, SentenceStart(words))
    /\ idx' = idx + 1
    /\ UNCHANGED <<entry, pc, text, opts, wrap, sentences, expanded, cleaned,
                   new, draws, joined, result, printed>>

\* one pass of the loop over the sentences
AnalyseSentence ==
    /\ pc = "analyse_loop"
    /\ idx <= Len(sentences)
    /\ LET s == sentences[idx]
           words == FindAllWords(s)
           word_count == Len(words)
       IN  /\ issues' = issues \o LengthIssues(idx, s, word_count)
                               \o ContractionIssues(idx, s)
                               \o InformalIssues(idx, s)
                               \o FirstPersonIssues(idx, s)
           /\ starts' = Append(starts, SentenceStart(words))
    /\ idx' = idx + 1
    /\ UNCHANGED <<entry, pc, text, opts, wrap, sentences, expanded, cleaned,
                   new, draws, joined, result, printed>>

\* the repeated-starts pass and the return
AnalyseRepeatedStarts ==
    /\ pc = "analyse_loop"
    /\ idx > Len(sentences)
    /\ issues' = issues \o RepeatedStartIssues(starts, sentences)
    /\ pc' = IF entry = "main" THEN "print_report" ELSE "done"
    /\ UNCHANGED <<entry, text, opts, wrap, sentences, idx, starts, expanded,
                   cleaned, new, draws, joined, result, printed>>

NextAnalyse == AnalyseStart \/ AnalyseSentence \/ AnalyseRepeatedStarts

(***************************************************************************)
(* textwrap.fill(text, width) as the two call sites use it: the text has   *)
(* had its whitespace runs collapsed to single spaces and holds no hyphen, *)
(* so the chunks are the runs of spaces and the runs of other characters.  *)
(* TextWrapper's defaults apply: drop_whitespace and break_long_words.     *)
(***************************************************************************)
IsBlank(chunk) == \A i \in DOMAIN chunk : IsSpace(chunk[i])

\* TextWrapper._split: the chunks of t end at these positions
ChunkEnds(t) ==
    {i \in 1..Len(t) : i = Len(t) \/ IsSpace(t[i + 1]) # IsSpace(t[i])}

Max(S) == CHOOSE x \in S : \A y \in S : y <= x
Min(S) == CHOOSE x \in S : \A y \in S : x <= y

\* TextWrapper._wrap_chunks: the lines still to come when the chunks left
\* are those of t from position p0 on (the first may be the rest of a broken
\* word); some says whether a line has been produced already
RECURSIVE WrapFrom(_, _, _, _, _)
WrapFrom(t, ends, p0, width, some) ==
    IF p0 > Len(t) THEN << >>
    ELSE
    LET \* a blank chunk that would open a line other than the first is dropped
        p == IF IsSpace(t[p0]) /\ some
             THEN Min({e \in ends : e >= p0}) + 1
             ELSE p0
        \* the chunks that fit are taken
        fits == {e \in ends : e >= p /\ e - p + 1 <= width}
        q == IF fits = {} THEN p ELSE Max(fits) + 1
        cur_len == q - p
        long == q <= Len(t) /\ Min({e \in ends : e >= q}) - q + 1 > width
        \* _handle_long_word, break_long_words: as much of the chunk as fits
        space_left == IF width < 1 THEN 1 ELSE width - cur_len
        r == IF long THEN q + space_left ELSE q
        \* a blank chunk that would close the line is dropped
        lineEnd ==
            IF long
            THEN IF space_left = 0 \/ IsSpace(t[q]) THEN q - 1 ELSE r - 1
            ELSE IF q > p /\ IsSpace(t[q - 1])
                 THEN Max({e \in ends \cup {p - 1} : p - 1 <= e /\ e < q - 1})
                 ELSE q - 1
    IN  IF lineEnd >= p
        THEN <<SubSeq(t, p, lineEnd)>> \o WrapFrom(t, ends, r, width, TRUE)
        ELSE WrapFrom(t, ends, r, width, some)

fill(t, width) == JoinWith(WrapFrom(t, ChunkEnds(t), 1, width, FALSE), <<"\n">>)

\* re.sub(r"\s+", " ", t)
CollapseWhitespace(t) ==
    Flatten([i \in DOMAIN t |->
                IF ~IsSpace(t[i]) THEN <<t[i]>>
                ELSE IF i > 1 /\ IsSpace(t[i - 1]) THEN << >>
                ELSE <<" ">>])

(***************************************************************************)
(* clean_text.                                                             *)
(***************************************************************************)
repl_contraction(word) ==
    LET exact == MapGet(CONTRACTION_MAP, word)
        folded == MapGet(CONTRACTION_MAP, Lower(word))
    IN  IF exact # None THEN exact
        ELSE IF folded # None THEN folded
        ELSE word

\* repl_informal writing the lowercase key where it should write the word
repl_informal_lowercased(word) ==
    LET key == Lower(word)
        suggestion == MapGet(INFORMAL_MAP, key)
    IN  IF suggestion # None /\ suggestion # << >>
        THEN key \o <<" ", "(">> \o suggestion \o <<")">>
        ELSE word

repl_informal(word) ==
    LET key == Lower(word)
        suggestion == MapGet(INFORMAL_MAP, key)
    IN  IF suggestion # None /\ suggestion # << >>
        THEN word \o <<" ", "(">> \o suggestion \o <<")">>
        ELSE word

\* CONTRACTION_PATTERN.sub(repl_contraction, t)
ExpandContractions(t) ==
    LET ms == CONTRACTION_PATTERN(t)
        reps == [k \in DOMAIN ms |-> repl_contraction(Group0(t, ms[k]))]
    IN  SubAll(t, ms, reps)

\* INFORMAL_PATTERN.sub(repl_informal, t)
AnnotateInformal(t) ==
    LET ms == INFORMAL_PATTERN(t)
        reps == [k \in DOMAIN ms |-> repl_informal(Group0(t, ms[k]))]
    IN  SubAll(t, ms, reps)

CleanContractions ==
    /\ pc = "clean_text"
    /\ expanded' = ExpandContractions(text)
    /\ pc' = "clean_informal"
    /\ UNCHANGED <<entry, text, opts, wrap, sentences, idx, issues, starts,
                   cleaned, new, draws, joined, result, printed>>

CleanInformal ==
    /\ pc = "clean_informal"
    /\ cleaned' = AnnotateInformal(expanded)
    /\ pc' = "clean_wrap"
    /\ UNCHANGED <<entry, text, opts, wrap, sentences, idx, issues, starts,
                   expanded, new, draws, joined, result, printed>>

\* the whitespace clean-up, fill and the return
CleanWrap ==
    /\ pc = "clean_wrap"
    /\ result' = fill(Strip(CollapseWhitespace(cleaned)), wrap)
    /\ pc' = IF entry = "main" THEN "print_cleaned" ELSE "done"
    /\ UNCHANGED <<entry, text, opts, wrap, sentences, idx, issues, starts,
                   expanded, cleaned, new, draws, joined, printed>>

NextClean == CleanContractions \/ CleanInformal \/ CleanWrap

(***************************************************************************)
(* main of style_assistant_uk_academic.py.  printed collects what it       *)
(* prints: the "no input" line, the report (print_report), the cleaned     *)
(* text.                                                                   *)
(***************************************************************************)
DEFAULT_WRAP == 90

\* x or y, for an optional width (<< >> is None)
OrElse(x, y) == IF x = << >> \/ x[1] = 0 THEN y ELSE x[1]

MainNoInput ==
    /\ pc = "main"
    /\ Strip(text) = << >>
    /\ printed' = Append(printed, [kind |-> "no_input"])
    /\ pc' = "done"
    /\ UNCHANGED <<entry, text, opts, wrap, sentences, idx, issues, starts,
                   expanded, cleaned, new, draws, joined, result>>

MainAnalyse ==
    /\ pc = "main"
    /\ Strip(text) # << >>
    /\ pc' = "analyse_text"
    /\ UNCHANGED <<entry, text, opts, wrap, sentences, idx, issues, starts,
                   expanded, cleaned, new, draws, joined, result, printed>>

\* print_report, then the branch on args.clean
MainReport ==
    /\ pc = "print_report"
    /\ printed' = Append(printed, [kind |-> "report",
                                   total_sentences |-> Len(sentences),
                                   total_issues |-> Len(issues)])
    /\ IF opts.clean
       THEN LET wrap_width == IF opts.nowrap THEN << >> ELSE <<DEFAULT_WRAP>>
            IN  /\ wrap' = OrElse(wrap_width, DEFAULT_WRAP)
                /\ pc' = "clean_text"
       ELSE /\ pc' = "done"
            /\ UNCHANGED wrap
    /\ UNCHANGED <<entry, text, opts, sentences, idx, issues, starts, expanded,
                   cleaned, new, draws, joined, result>>

MainPrintCleaned ==
    /\ pc = "print_cleaned"
    /\ printed' = Append(printed, [kind |-> "cleaned", text |-> result])
    /\ pc' = "done"
    /\ UNCHANGED <<entry, text, opts, wrap, sentences, idx, issues, starts,
                   expanded, cleaned, new, draws, joined, result>>

NextMain == MainNoInput \/ MainAnalyse \/ MainReport \/ MainPrintCleaned

(***************************************************************************)
(* uk_academic_humaniser.py.                                               *)
(***************************************************************************)
ACADEMIC_CONNECTORS == <<
    <<"M","o","r","e","o","v","e","r",","," ">>,
    <<"F","u","r","t","h","e","r","m","o","r","e",","," ">>,
    <<"I","n"," ","a","d","d","i","t","i","o","n",","," ">>,
    <<"I","t"," ","i","s"," ","a","l","s","o"," ","i","m","p","o","r","t","a","n","t"," ","t","o"," ","n","o","t","e"," ","t","h","a","t"," ">>,
    <<"H","o","w","e","v","e","r",","," ">>,
    <<"C","o","n","s","e","q","u","e","n","t","l","y",","," ">>,
    <<"T","h","e","r","e","f","o","r","e",","," ">>
>>

\* <<pattern without its \b anchors, replacement>>
LIGHT_REPHRASINGS == <<
    <<<<"i","n"," ","c","o","n","c","l","u","s","i","o","n">>,
      <<"o","v","e","r","a","l","l">>>>,
    <<<<"t","h","e","r","e","f","o","r","e">>,
      <<"t","h","e","r","e","f","o","r","e">>>>,
    <<<<"m","o","r","e","o","v","e","r">>,
      <<"m","o","r","e","o","v","e","r">>>>,
    <<<<"f","u","r","t","h","e","r","m","o","r","e">>,
      <<"f","u","r","t","h","e","r","m","o","r","e">>>>,
    <<<<"i","n"," ","a","d","d","i","t","i","o","n">>,
      <<"i","n"," ","a","d","d","i","t","i","o","n">>>>,
    <<<<"t","o"," ","s","u","m","m","a","r","i","s","e">>,
      <<"t","o"," ","s","u","m","m","a","r","i","s","e">>>>
>>

\* random.random() < 0.35, the draws counted in hundredths
INSERT_THRESHOLD == 35

\* re.sub(pattern, replacement, t, flags=re.IGNORECASE) for one rephrasing
Rephrase(t, r) ==
    LET ms == FindIter(<<r[1]>>, t, TRUE)
        reps == [k \in DOMAIN ms |-> r[2]]
    IN  SubAll(t, ms, reps)

RECURSIVE RephraseFrom(_, _)
RephraseFrom(t, i) ==
    IF i > Len(LIGHT_REPHRASINGS) THEN t
    ELSE RephraseFrom(Rephrase(t, LIGHT_REPHRASINGS[i]), i + 1)

apply_light_rephrasings(t) == RephraseFrom(t, 1)

\* whether academic_tone draws a random number at all (the and short-circuits)
DrawsAt(i, total) == 0 < i /\ i < total

\* academic_tone with the comparison of the draw turned round
academic_tone_inverted(sentence, i, total, r, c) ==
    LET s == apply_light_rephrasings(sentence)
        s2 == IF DrawsAt(i, total) /\ r >= INSERT_THRESHOLD
              THEN ACADEMIC_CONNECTORS[c] \o <<LowerChar(s[1])>> \o Tail(s)
              ELSE s
    IN  IF s2 # << >> THEN s2 ELSE sentence

\* academic_tone(sentence, i, total) when random.random() returned r (read
\* only when DrawsAt) and random.choice picked connector c
academic_tone(sentence, i, total, r, c) ==
    LET s == apply_light_rephrasings(sentence)
        s2 == IF DrawsAt(i, total) /\ r < INSERT_THRESHOLD
              THEN ACADEMIC_CONNECTORS[c] \o <<LowerChar(s[1])>> \o Tail(s)
              ELSE s
    IN  IF s2 # << >> THEN s2 ELSE sentence

\* the whitespace clean-up, the empty-input return, the segmentation
HumaniseStart ==
    /\ pc = "humanise_uk_academic"
    /\ LET t == Strip(CollapseWhitespace(text))
       IN  IF t = << >>
           THEN /\ result' = << >>
                /\ pc' = "done"
                /\ UNCHANGED <<sentences, idx, new>>
           ELSE /\ sentences' = split_sentences(t)
                /\ new' = << >>
                /\ idx' = 0
                /\ pc' = "humanise_loop"
                /\ UNCHANGED result
    /\ UNCHANGED <<entry, text, opts, wrap, issues, starts, expanded, cleaned,
                   draws, joined, printed>>

\* one pass of the loop when academic_tone does not draw (the first sentence)
HumaniseFirst ==
    /\ pc = "humanise_loop"
    /\ idx < Len(sentences)
    /\ ~DrawsAt(idx, Len(sentences))
    /\ new' = Append(new, academic_tone(sentences[idx + 1], idx, Len(sentences), 0, 1))
    /\ idx' = idx + 1
    /\ UNCHANGED <<entry, pc, text, opts, wrap, sentences, issues, starts,
                   expanded, cleaned, draws, joined, result, printed>>

\* one pass of the loop when the draw is at or above the threshold
HumaniseKeep ==
    /\ pc = "humanise_loop"
    /\ idx < Len(sentences)
    /\ DrawsAt(idx, Len(sentences))
    /\ \E r \in RandomValues :
          /\ r >= INSERT_THRESHOLD
          /\ new' = Append(new, academic_tone(sentences[idx + 1], idx, Len(sentences), r, 1))
          /\ draws' = Append(draws, r)
    /\ idx' = idx + 1
    /\ UNCHANGED <<entry, pc, text, opts, wrap, sentences, issues, starts,
                   expanded, cleaned, joined, result, printed>>

\* one pass of the loop when the draw is below the threshold
HumaniseInsert ==
    /\ pc = "humanise_loop"
    /\ idx < Len(sentences)
    /\ DrawsAt(idx, Len(sentences))
    /\ \E r \in RandomValues, c \in ConnectorChoices :
          /\ r < INSERT_THRESHOLD
          /\ new' = Append(new, academic_tone(sentences[idx + 1], idx, Len(sentences), r, c))
          /\ draws' = Append(draws, r)
    /\ idx' = idx + 1
    /\ UNCHANGED <<entry, pc, text, opts, wrap, sentences, issues, starts,
                   expanded, cleaned, joined, result, printed>>

\* the join, fill and the return
HumaniseWrap ==
    /\ pc = "humanise_loop"
    /\ idx >= Len(sentences)
    /\ joined' = JoinWith(new, <<" ">>)
    /\ result' = fill(JoinWith(new, <<" ">>), wrap)
    /\ pc' = "done"
    /\ UNCHANGED <<entry, text, opts, wrap, sentences, idx, issues, starts,
                   expanded, cleaned, new, draws, printed>>

NextHumanise ==
    HumaniseStart \/ HumaniseFirst \/ HumaniseKeep \/ HumaniseInsert \/ HumaniseWrap

(***************************************************************************)
(* The harness of the segmentation round trip: split, re-join with single  *)
(* spaces, split again.                                                    *)
(***************************************************************************)
SegmentFirst ==
    /\ pc = "split_sentences"
    /\ sentences' = split_sentences(text)
    /\ pc' = "rejoin"
    /\ UNCHANGED <<entry, text, opts, wrap, idx, issues, starts, expanded,
                   cleaned, new, draws, joined, result, printed>>

SegmentRejoin ==
    /\ pc = "rejoin"
    /\ joined' = JoinWith(sentences, <<" ">>)
    /\ pc' = "split_again"
    /\ UNCHANGED <<entry, text, opts, wrap, sentences, idx, issues, starts,
                   expanded, cleaned, new, draws, result, printed>>

SegmentAgain ==
    /\ pc = "split_again"
    /\ result' = split_sentences(joined)
    /\ pc' = "done"
    /\ UNCHANGED <<entry, text, opts, wrap, sentences, idx, issues, starts,
                   expanded, cleaned, new, draws, joined, printed>>

NextSegment == SegmentFirst \/ SegmentRejoin \/ SegmentAgain

(***************************************************************************)
(* Inputs and specifications.  A text is a concatenation of pieces.        *)
(***************************************************************************)
SeqsUpTo(S, n) == UNION {[1..k -> S] : k \in 0..n}
Texts(pieces, n) == {Flatten(ps) : ps \in SeqsUpTo(pieces, n)}

\* split_sentences: a letter, a digit, a terminator, a space
SegAlphabet == {
    <<"a">>,
    <<"1">>,
    <<".">>,
    <<" ">>
}

\* main, analyse_text, humanise_uk_academic: blank and non-blank pieces
MainPieces == {
    <<" ">>,
    <<"\n">>,
    <<"a">>,
    <<".">>,
    <<"s","t","u","f","f">>
}

\* analyse_text: sentences and fragments
AnalysePieces == {
    <<"W","e"," ","g","o","."," ">>,
    <<"I"," ","d","o","n","'","t"," ","r","e","a","l","l","y"," ","g","o","."," ">>,
    <<"D","o","n","'","t"," ","s","t","o","p">>,
    <<"S","t","u","f","f","!"," ">>
}

\* analyse_text: runs of 1, 6 and 29 one-letter words, a contraction, a terminator
LengthPieces == {
    <<"a"," ">>,
    <<"b"," ","b"," ","b"," ","b"," ","b"," ","b"," ">>,
    <<"c"," ","c"," ","c"," ","c"," ","c"," ","c"," ","c"," ","c"," ","c"," ","c"," ","c"," ","c"," ","c"," ","c"," ","c"," ","c"," ","c"," ","c"," ","c"," ","c"," ","c"," ","c"," ","c"," ","c"," ","c"," ","c"," ","c"," ","c"," ","c"," ">>,
    <<"d","o","n","'","t"," ">>,
    <<"."," ">>
}

\* clean_text: contractions and informal terms
CleanPieces == {
    <<"c","a","n","'","t"," ">>,
    <<"c","a","n","n","o","t"," ">>,
    <<"r","e","a","l","l","y"," ">>,
    <<"S","t","u","f","f"," ">>,
    <<LongS,"t","u","f","f"," ">>,
    <<"a"," ","l","o","t">>
}

\* humanise_uk_academic: sentences, connector phrases, a rephrased phrase
HumanisePieces == {
    <<"G","o","."," ">>,
    <<"H","o","w","e","v","e","r",","," ">>,
    <<"M","o","r","e","o","v","e","r",","," ">>,
    <<"I","n"," ","C","o","n","c","l","u","s","i","o","n"," ","i","t"," ","i","s",".">>,
    <<"s","o">>
}

NoOpts == [clean |-> FALSE, nowrap |-> FALSE]
AllOpts == [clean : BOOLEAN, nowrap : BOOLEAN]

\* the state at the call of function e on text t
Called(e, t, o, w) ==
    /\ entry = e
    /\ pc = e
    /\ text = t
    /\ opts = o
    /\ wrap = w
    /\ sentences = << >>
    /\ idx = 0
    /\ issues = << >>
    /\ starts = << >>
    /\ expanded = << >>
    /\ cleaned = << >>
    /\ new = << >>
    /\ draws = << >>
    /\ joined = << >>
    /\ result = << >>
    /\ printed = << >>

\* split_sentences on every text over SegAlphabet
InitSegment ==
    \E t \in Texts(SegAlphabet, MaxSegLen) :
        Called("split_sentences", t, NoOpts, DEFAULT_WRAP)
SpecSegment == InitSegment /\ [][NextSegment]_vars

\* the tool, analyse_text and humanise_uk_academic on blank and other texts
InitMain ==
    \E t \in Texts(MainPieces, MaxMainPieces) :
        \/ \E o \in AllOpts : Called("main", t, o, DEFAULT_WRAP)
        \/ Called("analyse_text", t, NoOpts, DEFAULT_WRAP)
        \/ Called("humanise_uk_academic", t, NoOpts, DEFAULT_WRAP)
NextTools == NextMain \/ NextAnalyse \/ NextClean \/ NextHumanise
SpecMain == InitMain /\ [][NextTools]_vars

\* analyse_text on documents of a few sentences
InitAnalyse ==
    \E t \in Texts(AnalysePieces, MaxAnalysePieces) :
        Called("analyse_text", t, NoOpts, DEFAULT_WRAP)
SpecAnalyse == InitAnalyse /\ [][NextAnalyse]_vars

\* analyse_text on sentences of up to more than LONG_LIMIT words
InitLength ==
    \E t \in Texts(LengthPieces, MaxLengthPieces) :
        Called("analyse_text", t, NoOpts, DEFAULT_WRAP)
SpecLength == InitLength /\ [][NextAnalyse]_vars

\* clean_text
InitClean ==
    \E t \in Texts(CleanPieces, MaxCleanPieces), w \in {NarrowWrap, DEFAULT_WRAP} :
        Called("clean_text", t, NoOpts, w)
SpecClean == InitClean /\ [][NextClean]_vars

\* humanise_uk_academic
InitHumanise ==
    \E t \in Texts(HumanisePieces, MaxHumanisePieces), w \in {NarrowWrap, DEFAULT_WRAP} :
        Called("humanise_uk_academic", t, NoOpts, w)
SpecHumanise == InitHumanise /\ [][NextHumanise]_vars

(***************************************************************************)
(* Properties.                                                             *)
(***************************************************************************)
Range(f) == {f[i] : i \in DOMAIN f}
AllSpace(t) == \A i \in DOMAIN t : IsSpace(t[i])
\* t without its whitespace
Solid(t) == SelectSeq(t, LAMBDA c : ~IsSpace(c))
IssuesOf(type, i) ==
    {k \in DOMAIN issues : issues[k].type = type /\ issues[k].sentence_index = i}

\* The opening key as the specification describes it: the lowercase join of
\* the sentence's first two word tokens, or its single first token.
OpeningKey(s) ==
    LET ms == WordMatches(s)
        token(k) == SubSeq(s, ms[k].from, ms[k].to)
    IN  IF Len(ms) >= 2 THEN Lower(token(1) \o <<" ">> \o token(2))
        ELSE IF Len(ms) = 1 THEN Lower(token(1))
        ELSE << >>

\* C1: a sentence gets a repeated_start issue if and only if its opening key
\* (the lowercase join of its first two word tokens, or its single first
\* token) is the opening key of more than two sentences of the document.
C1_RepeatedStartIffOpeningRepeats ==
    (entry = "analyse_text" /\ pc = "done") =>
        \A i \in DOMAIN sentences :
            (IssuesOf("repeated_start", i) # {})
            <=> Cardinality({j \in DOMAIN sentences :
                    OpeningKey(sentences[j]) = OpeningKey(sentences[i])}) > 2

\* C2: for each term table the matcher reports every non-overlapping
\* whole-word occurrence of a key whatever its letter case: every sentence
\* has one contraction issue per case-insensitive match of a contraction key
\* and one informal issue per case-insensitive match of an informal key.
C2_MatchesWhateverTheCase ==
    (entry = "analyse_text" /\ pc = "done") =>
        \A i \in DOMAIN sentences :
            /\ Cardinality(IssuesOf("contraction", i))
                   = Len(FindIter(ContractionKeys, sentences[i], TRUE))
            /\ Cardinality(IssuesOf("informal", i))
                   = Len(FindIter(InformalKeys, sentences[i], TRUE))

\* C3: a blank input is signalled apart from a zero-issue result.  main ends
\* with the "no input" line and no report exactly when the text is empty or
\* all whitespace; analyse_text returns no sentence exactly then; and
\* humanise_uk_academic returns the empty string exactly then.
C3_BlankInputSignalled ==
    pc = "done" =>
        /\ entry = "main" =>
              IF AllSpace(text)
              THEN Len(printed) = 1 /\ printed[1].kind = "no_input"
              ELSE /\ \A k \in DOMAIN printed : printed[k].kind # "no_input"
                   /\ printed[1].kind = "report"
                   /\ printed[1].total_sentences >= 1
        /\ entry = "analyse_text" => (sentences = << >> <=> AllSpace(text))
        /\ entry = "humanise_uk_academic" => (result = << >> <=> AllSpace(text))

\* main has ended on a text of whitespace alone, with the "no input" line
C3_Witness ==
    /\ entry = "main"
    /\ pc = "done"
    /\ text # << >>
    /\ AllSpace(text)
    /\ printed = <<[kind |-> "no_input"]>>

\* C4: the noWrap option disables wrapping: with clean and noWrap the cleaned
\* text is emitted as one line whatever its length.
C4_NoWrapGivesOneLine ==
    (entry = "main" /\ pc = "done" /\ opts.clean /\ opts.nowrap) =>
        \A k \in DOMAIN printed :
            printed[k].kind = "cleaned" => "\n" \notin Range(printed[k].text)

\* C5: segmentation is idempotent in the number of sentences: the sentences
\* of a text, joined with single spaces and segmented again, are as many.
C5_SegmentationIdempotent ==
    (entry = "split_sentences" /\ pc = "done") => Len(result) = Len(sentences)

\* a text whose terminator is directly followed by a letter has been
\* segmented in two or more sentences, re-joined to another text and
\* segmented again
C5_Witness ==
    /\ entry = "split_sentences"
    /\ pc = "done"
    /\ Len(sentences) >= 2
    /\ joined # text
    /\ \E i \in 1..(Len(text) - 1) : IsTerminator(text[i]) /\ IsAsciiLetter(text[i + 1])

\* C6: contraction expansion is idempotent, and after one application no
\* match of a contraction-table key remains in the text.
C6_ExpansionLeavesNoKey ==
    (entry = "clean_text" /\ pc # "clean_text") =>
        /\ ExpandContractions(expanded) = expanded
        /\ CONTRACTION_PATTERN(expanded) = << >>

NoInsertion == \A k \in DOMAIN draws : draws[k] >= 35

\* C7 as stated: when every draw is at or above the threshold, segmenting
\* the output gives the sentences of the input, as many and in order, and
\* the output contains none of the connector phrases.
C7_NoConnectorInOutput ==
    (entry = "humanise_uk_academic" /\ pc = "done" /\ NoInsertion) =>
        /\ Len(split_sentences(result)) = Len(split_sentences(text))
        /\ \A c \in DOMAIN ACADEMIC_CONNECTORS :
              ~Contains(result, ACADEMIC_CONNECTORS[c])

\* C7, amended: when every draw is at or above the threshold, segmenting the
\* output gives as many sentences as segmenting the input, sentence i of the
\* output is sentence i of the input rephrased (up to whitespace), and the
\* output contains a connector phrase only if the whitespace-normalised
\* input contains it already.
C7_NoConnectorInserted ==
    (entry = "humanise_uk_academic" /\ pc = "done" /\ NoInsertion) =>
        LET out == split_sentences(result)
        IN  /\ Len(out) = Len(split_sentences(text))
            /\ Len(out) = Len(sentences)
            /\ \A i \in DOMAIN out :
                  Solid(out[i]) = Solid(apply_light_rephrasings(sentences[i]))
            /\ \A c \in DOMAIN ACADEMIC_CONNECTORS :
                  Contains(result, ACADEMIC_CONNECTORS[c])
                  => Contains(Strip(CollapseWhitespace(text)), ACADEMIC_CONNECTORS[c])

\* a text of several sentences that holds "However, " has been humanised
\* with every draw at or above the threshold
C7_Witness ==
    /\ entry = "humanise_uk_academic"
    /\ pc = "done"
    /\ draws # << >>
    /\ NoInsertion
    /\ Len(sentences) >= 2
    /\ Contains(result, <<"H","o","w","e","v","e","r",","," ">>)

TypeRank(type) ==
    CASE type \in {"long_sentence", "short_sentence"} -> 1
      [] type = "contraction" -> 2
      [] type = "informal" -> 3
      [] type = "first_person" -> 4
      [] OTHER -> 5

\* C8: in the issue sequence the issues that are not repeated_start come
\* first, in non-decreasing sentence order and, within a sentence, length
\* issue, contractions, informal terms, first-person pronouns; every
\* repeated_start issue comes after them, in increasing sentence order.
C8_IssueOrder ==
    \A i, j \in DOMAIN issues :
        i < j =>
            IF issues[i].type = "repeated_start"
            THEN /\ issues[j].type = "repeated_start"
                 /\ issues[i].sentence_index < issues[j].sentence_index
            ELSE issues[j].type # "repeated_start" =>
                 /\ issues[i].sentence_index <= issues[j].sentence_index
                 /\ issues[i].sentence_index = issues[j].sentence_index
                    => TypeRank(issues[i].type) <= TypeRank(issues[j].type)

\* analyse_text has returned repeated_start issues for a document in which a
\* later sentence has issues of all four other kinds
C8_Witness ==
    /\ entry = "analyse_text"
    /\ pc = "done"
    /\ \E k \in DOMAIN issues :
          /\ issues[k].type = "repeated_start"
          /\ issues[k].sentence_index = 1
    /\ \E i \in DOMAIN sentences :
          /\ i > 1
          /\ IssuesOf("short_sentence", i) # {}
          /\ IssuesOf("contraction", i) # {}
          /\ IssuesOf("informal", i) # {}
          /\ IssuesOf("first_person", i) # {}

\* C9: every sentence gets a long_sentence issue exactly when it has more
\* than 35 word tokens (a word with an apostrophe continuation is one
\* token), a short_sentence issue exactly when it has fewer than 7, and
\* never both.
C9_OneLengthIssue ==
    (entry = "analyse_text" /\ pc = "done") =>
        \A i \in DOMAIN sentences :
            LET n == Len(WordMatches(sentences[i]))
                long == Cardinality(IssuesOf("long_sentence", i))
                short == Cardinality(IssuesOf("short_sentence", i))
            IN  /\ long = (IF n > 35 THEN 1 ELSE 0)
                /\ short = (IF n < 7 THEN 1 ELSE 0)
                /\ long + short <= 1

\* analyse_text has returned a long_sentence issue for a sentence of 36
\* tokens, one of them a word with an apostrophe continuation
C9_Witness ==
    /\ entry = "analyse_text"
    /\ pc = "done"
    /\ \E k \in DOMAIN issues :
          /\ issues[k].type = "long_sentence"
          /\ issues[k].detail = 36
          /\ "'" \in Range(issues[k].extract)

\* The text clean_text's informal substitution should give, by positions:
\* match k of the informal pattern in the expanded text is replaced by
\* put(k), the rest is kept.
RECURSIVE SumTo(_, _)
SumTo(f, k) == IF k = 0 THEN 0 ELSE f[k] + SumTo(f, k - 1)

\* by how much the replacements of the matches before match k move it
Shift(ms, put(_), k) ==
    SumTo([j \in 1..(k - 1) |-> Len(put(j)) - (ms[j].to - ms[j].from + 1)], k - 1)

ReplacedBy(from, to, ms, put(_)) ==
    /\ Len(to) = Len(from) + Shift(ms, put, Len(ms) + 1)
    /\ \A k \in DOMAIN ms :
          LET at == ms[k].from + Shift(ms, put, k)
          IN  /\ SubSeq(to, at, at + Len(put(k)) - 1) = put(k)
              /\ LET gapFrom == IF k = 1 THEN 1 ELSE ms[k - 1].to + 1
                 IN  Slice(to, at - (ms[k].from - gapFrom), at - 1)
                         = Slice(from, gapFrom, ms[k].from - 1)
    /\ LET tail == IF ms = << >> THEN 1 ELSE ms[Len(ms)].to + 1
       IN  Slice(to, Len(to) - (Len(from) - tail), Len(to)) = Slice(from, tail, Len(from))

\* the suggestion of the table key that matched at m
SuggestionAt(t, m) == INFORMAL_MAP[AltAt(InformalKeys, t, m.from, TRUE)][2]
Annotated(t, m) == Group0(t, m) \o <<" ", "(">> \o SuggestionAt(t, m) \o <<")">>
IsInformalKey(w) == \E k \in DOMAIN InformalKeys : InformalKeys[k] = w

\* C10 as stated: the informal terms are resolved over the text whose
\* contractions are expanded, every match replaced by the matched text in
\* its casing, a space and the table's suggestion in parentheses.
C10_EveryMatchAnnotated ==
    (entry = "clean_text" /\ pc \in {"clean_wrap", "done"}) =>
        LET ms == INFORMAL_PATTERN(expanded)
            put(k) == Annotated(expanded, ms[k])
        IN  ReplacedBy(expanded, cleaned, ms, put)

\* C10, amended: the informal terms are resolved over the text whose
\* contractions are expanded; every match whose lowercase form is a key of
\* the table is replaced by the matched text in its casing, a space and the
\* table's suggestion in parentheses, and a match whose lowercase form is no
\* key (U+017F matches "s" but does not lowercase to it) is left as it is;
\* no other text changes, so a suggestion is not annotated again.
C10_KeyedMatchesAnnotated ==
    (entry = "clean_text" /\ pc \in {"clean_wrap", "done"}) =>
        LET ms == INFORMAL_PATTERN(expanded)
            put(k) == IF IsInformalKey(Lower(Group0(expanded, ms[k])))
                      THEN Annotated(expanded, ms[k])
                      ELSE Group0(expanded, ms[k])
            cs == CONTRACTION_PATTERN(text)
            full(k) == CONTRACTION_MAP[AltAt(ContractionKeys, text, cs[k].from, FALSE)][2]
        IN  /\ ReplacedBy(text, expanded, cs, full)
            /\ ReplacedBy(expanded, cleaned, ms, put)

\* clean_text has expanded a contraction and annotated "Stuff" in its casing
C10_Witness ==
    /\ entry = "clean_text"
    /\ pc = "done"
    /\ expanded # text
    /\ Contains(cleaned, <<"S","t","u","f","f"," ","(","m","a","t","e","r","i","a","l"," ","/"," ","c","o","n","t","e","n","t"," ","/"," ","i","t","e","m","s"," ","(","b","e"," ","s","p","e","c","i","f","i","c",")",")">>)
    /\ Contains(cleaned, <<"(","h","i","g","h","l","y"," ","/"," ","v","e","r","y"," ","(">>)

====
